---- MODULE Spec2Model ----
(***************************************************************************)
(* Guided sudoku solver (src/main.py): the backtracking solver `solve`,    *)
(* the ten deduction strategies and the guided orchestrator                *)
(* `guided_solver`, over the 9x9 grid of Cell(value, given, candidates).   *)
(*                                                                         *)
(* A cell value None is written 0 (the code itself reads `value or 0`).    *)
(* A candidate list is kept by the code in ascending order without         *)
(* repetition (get_cell_candidates builds it ascending, every later        *)
(* change is a filter or a remove), so it is written as a set.             *)
(***************************************************************************)
EXTENDS Integers, Sequences, FiniteSets, TLC

\* ------------------------------------------------------------------------
\* Grid geometry
\* ------------------------------------------------------------------------
Side == 9
Box == 3
Idx == 0 .. (Side - 1)
Digits == 1 .. Side
Pos == Idx \X Idx

BlockOrigin(k) == (k \div Box) * Box

SameBlock(p, q) ==
    /\ BlockOrigin(p[1]) = BlockOrigin(q[1])
    /\ BlockOrigin(p[2]) = BlockOrigin(q[2])

\* the 27 cells is_valid scans for a position: its row, its column, its block
ScannedOf ==
    [p \in Pos |-> {q \in Pos : q[1] = p[1] \/ q[2] = p[2] \/ SameBlock(p, q)}]

Scanned(p) == ScannedOf[p]

\* is_valid(cells, num, pos): no scanned cell holds num
is_valid(val, num, p) == \A q \in Scanned(p) : val[q] # num

\* row-major rank of a position, the scan order of find_empty
Rank(p) == p[1] * Side + p[2]

EmptyCells(val) == {p \in Pos : val[p] = 0}

\* a scan that goes through each row from its last column to its first
find_empty_RightToLeft(val) ==
    IF EmptyCells(val) = {} THEN <<>>
    ELSE CHOOSE p \in EmptyCells(val) :
            \A q \in EmptyCells(val) :
                p[1] < q[1] \/ (p[1] = q[1] /\ p[2] >= q[2])

\* find_empty(cells): first empty cell in row-major order, <<>> for None
find_empty(val) ==
    IF EmptyCells(val) = {} THEN <<>>
    ELSE CHOOSE p \in EmptyCells(val) : \A q \in EmptyCells(val) : Rank(p) <= Rank(q)

\* ------------------------------------------------------------------------
\* Inputs: puzzle texts (81 characters, '.'/'0' written 0)
\* ------------------------------------------------------------------------
SolutionRows ==
    << <<5,3,4,6,7,8,9,1,2>>,
       <<6,7,2,1,9,5,3,4,8>>,
       <<1,9,8,3,4,2,5,6,7>>,
       <<8,5,9,7,6,1,4,2,3>>,
       <<4,2,6,8,5,3,7,9,1>>,
       <<7,1,3,9,2,4,8,5,6>>,
       <<9,6,1,5,3,7,2,8,4>>,
       <<2,8,7,4,1,9,6,3,5>>,
       <<3,4,5,2,8,6,1,7,9>> >>

Solution == [p \in Pos |-> SolutionRows[p[1] + 1][p[2] + 1]]

\* cells that may be blanked in the small puzzles; (0,3) (0,4) (3,3) (3,4)
\* hold 6 7 / 7 6, so blanking all four leaves two completions
HolePool == {<<0,3>>, <<0,4>>, <<3,3>>, <<3,4>>, <<3,1>>, <<4,4>>}

MaxHoles == 4

\* two larger masks: HardA needs naked pairs and a naked triplet and is then
\* completed; HardB has a unique completion the strategies do not reach
HardA ==
    {<<1,1>>, <<1,2>>, <<1,3>>, <<1,4>>, <<1,5>>, <<2,0>>, <<2,5>>, <<3,0>>,
     <<3,1>>, <<3,4>>, <<3,5>>, <<4,2>>, <<4,4>>, <<5,0>>, <<5,1>>, <<5,3>>,
     <<5,4>>, <<6,1>>, <<6,2>>, <<7,0>>, <<7,1>>, <<7,3>>, <<8,1>>, <<8,2>>,
     <<8,3>>}

HardB ==
    {<<0,3>>, <<0,6>>, <<0,8>>, <<2,5>>, <<2,7>>, <<3,7>>, <<3,8>>, <<7,2>>,
     <<7,5>>, <<7,6>>, <<7,7>>, <<7,8>>, <<8,2>>, <<8,3>>, <<8,5>>, <<8,7>>,
     <<8,8>>}

\* HardC: one completion, reached by the strategies; one naked-pair-subgrid
\* pass on it eliminates candidates in three blocks
HardC ==
    {<<0,3>>, <<0,5>>, <<0,6>>, <<0,8>>, <<1,1>>, <<1,2>>, <<1,3>>, <<1,4>>,
     <<1,8>>, <<4,0>>, <<4,1>>, <<4,3>>, <<4,4>>, <<6,0>>, <<6,2>>, <<6,3>>,
     <<6,5>>, <<6,6>>, <<6,8>>, <<7,0>>, <<7,2>>, <<7,4>>, <<7,5>>, <<8,1>>,
     <<8,2>>, <<8,3>>, <<8,4>>, <<8,5>>, <<8,8>>}

SmallMasks == {H \in SUBSET HolePool : Cardinality(H) <= MaxHoles}

\* a clue typed differently from the solution: <<0,1>> := 5 repeats the 5 of
\* row 0; <<3,3>> := 6 swaps to the other completion of the 6/7 rectangle
NoOverride == [pos |-> <<>>, val |-> 0]
Overrides ==
    {NoOverride, [pos |-> <<0,1>>, val |-> 5], [pos |-> <<3,3>>, val |-> 6]}

PuzzleText(H, o) ==
    [p \in Pos |-> IF p = o.pos THEN o.val
                   ELSE IF p \in H THEN 0 ELSE Solution[p]]

Puzzles ==
    {PuzzleText(H, o) : H \in SmallMasks, o \in Overrides}
        \cup {PuzzleText(HardA, NoOverride), PuzzleText(HardB, NoOverride),
              PuzzleText(HardC, NoOverride)}

\* ------------------------------------------------------------------------
\* Candidate engine
\* ------------------------------------------------------------------------
\* A grid g is the record [value, given, candidates] of the three cell fields.

\* the element of a one-element set; TheOne({F(x) : x \in {e}}) is F(e) with
\* e worked out once
TheOne(S) == CHOOSE x \in S : TRUE

\* get_cell_candidates(cells): every empty cell gets the numbers is_valid
\* accepts; cells with a value are left as they are
get_cell_candidates(g) ==
    [g EXCEPT !.candidates =
        [p \in Pos |-> IF g.value[p] = 0
                       THEN {n \in Digits : is_valid(g.value, n, p)}
                       ELSE g.candidates[p]]]

\* the cells remove_filled_candidates visits for a filled cell: row peers,
\* column peers and the cells of its block
\* the row and column loop alone, without the block loop
Peers_RowColumn(p) == {q \in Pos : q[1] = p[1] \/ q[2] = p[2]}

PeersOf ==
    [p \in Pos |-> {q \in Pos : q[1] = p[1] \/ q[2] = p[2] \/ SameBlock(p, q)}]

Peers(p) == PeersOf[p]

\* the body with the last candidate of a visited cell popped in place of the
\* filled cell's value
RemoveOne_PopLast(g, p) ==
    [g EXCEPT !.candidates =
        [q \in Pos |-> IF q = p THEN {}
                       ELSE IF /\ q \in Peers(p)
                               /\ g.value[q] = 0
                               /\ g.value[p] \in g.candidates[q]
                            THEN g.candidates[q] \
                                   {CHOOSE n \in g.candidates[q] :
                                       \A k \in g.candidates[q] : k <= n}
                            ELSE g.candidates[q]]]

\* body of `for r, c in filled`: clear the cell's own candidates, then remove
\* its value from every visited cell that has no value
RemoveOne(g, p) ==
    [g EXCEPT !.candidates =
        [q \in Pos |-> IF q = p THEN {}
                       ELSE IF q \in Peers(p) /\ g.value[q] = 0
                            THEN g.candidates[q] \ {g.value[p]}
                            ELSE g.candidates[q]]]

RECURSIVE remove_filled_candidates(_, _)
remove_filled_candidates(g, filled) ==
    IF filled = {} THEN g
    ELSE TheOne({remove_filled_candidates(RemoveOne(g, p), filled \ {p}) :
                    p \in {TheOne(filled)}})

\* ------------------------------------------------------------------------
\* Strategies: apply(cells) returns [changed, g]
\* ------------------------------------------------------------------------
\* the nine columns, rows and blocks, each as the sequence of its cells in
\* the order the code scans them; units are numbered 0..8
ColumnUnits == [c \in Idx |-> [k \in 1 .. Side |-> <<k - 1, c>>]]
RowUnits == [r \in Idx |-> [k \in 1 .. Side |-> <<r, k - 1>>]]
BlockUnits ==
    [b \in Idx |-> [k \in 1 .. Side |->
        <<(b \div Box) * Box + ((k - 1) \div Box),
          (b % Box) * Box + ((k - 1) % Box)>>]]

\* SingleCandidateStrategy.apply: the value is set and given reset; the
\* candidate list is left as it is
SingleCandidateFill(g, p) == g.value[p] = 0 /\ Cardinality(g.candidates[p]) = 1

SingleCandidateStrategy(g) ==
    [changed |-> \E p \in Pos : SingleCandidateFill(g, p),
     g |-> [g EXCEPT
              !.value = [p \in Pos |-> IF SingleCandidateFill(g, p)
                                       THEN TheOne(g.candidates[p])
                                       ELSE g.value[p]],
              !.given = [p \in Pos |-> IF SingleCandidateFill(g, p)
                                       THEN FALSE
                                       ELSE g.given[p]]]]

\* a fill that marks the cell as a clue
HiddenFill_Given(g, p, n) ==
    [g EXCEPT !.value[p] = n, !.given[p] = TRUE, !.candidates[p] = {}]

\* the fill of the three hidden-single strategies
HiddenFill(g, p, n) ==
    [g EXCEPT !.value[p] = n, !.given[p] = FALSE, !.candidates[p] = {}]

\* one iteration of `for n in range(1, 10)` of the hidden-single strategies
\* on the unit u; r is [changed, g]
HiddenSingleAt(u, r, n) ==
    LET positions == {i \in 1 .. Side :
                        r.g.value[u[i]] = 0 /\ n \in r.g.candidates[u[i]]}
    IN  IF Cardinality(positions) = 1
        THEN [changed |-> TRUE, g |-> HiddenFill(r.g, u[TheOne(positions)], n)]
        ELSE r

\* the loop over n on one unit, from n on; a fill is seen by the later numbers
RECURSIVE HiddenSingleInUnit(_, _, _)
HiddenSingleInUnit(u, r, n) ==
    IF n > Side THEN r
    ELSE TheOne({HiddenSingleInUnit(u, x, n + 1) : x \in {HiddenSingleAt(u, r, n)}})

\* the unit loop of the hidden-single strategies, from unit k on; a fill is
\* seen by the later units
RECURSIVE HiddenSinglePass(_, _, _)
HiddenSinglePass(units, r, k) ==
    IF k = Side THEN r
    ELSE TheOne({HiddenSinglePass(units, x, k + 1) :
                    x \in {HiddenSingleInUnit(units[k], r, 1)}})

NoChange(g) == [changed |-> FALSE, g |-> g]

SubgridSingleStrategy(g) == HiddenSinglePass(BlockUnits, NoChange(g), 0)
RowSingleStrategy(g) == HiddenSinglePass(RowUnits, NoChange(g), 0)
ColumnSingleStrategy(g) == HiddenSinglePass(ColumnUnits, NoChange(g), 0)

\* an elimination loop without the test `i not in (i1, i2)`
Eliminate_All(g, u, keep, nums) ==
    [g EXCEPT !.candidates =
        [p \in Pos |->
            IF \E i \in 1 .. Side : u[i] = p /\ g.value[p] = 0
            THEN g.candidates[p] \ nums
            ELSE g.candidates[p]]]

\* elimination loop of the naked strategies: nums leave the candidates of
\* every cell of the unit that has no value and is not one of `keep`
Eliminate(g, u, keep, nums) ==
    [g EXCEPT !.candidates =
        [p \in Pos |->
            IF \E i \in (1 .. Side) \ keep : u[i] = p /\ g.value[p] = 0
            THEN g.candidates[p] \ nums
            ELSE g.candidates[p]]]

\* `if cells[..].candidates != before: changed = True` over one unit: h is
\* the grid g after the unit's elimination
Noted(g, changed, h) ==
    [changed |-> changed \/ h.candidates # g.candidates, g |-> h]

\* index tuples compared as the nested loops / itertools.combinations meet them
LexLeq(a, b) ==
    \E i \in 1 .. Len(a) + 1 :
        /\ \A j \in 1 .. (i - 1) : a[j] = b[j]
        /\ i <= Len(a) => a[i] < b[i]

\* the first of a set of index tuples
First(S) == CHOOSE m \in S : \A o \in S : LexLeq(m, o)

\* cells of the unit u with exactly two candidates, and the pairs of them
\* (idx1 < idx2) with the same candidates
PairCells(g, u) ==
    {i \in 1 .. Side : g.value[u[i]] = 0 /\ Cardinality(g.candidates[u[i]]) = 2}

PairMatches(g, u) ==
    {m \in PairCells(g, u) \X PairCells(g, u) :
        m[1] < m[2] /\ g.candidates[u[m[1]]] = g.candidates[u[m[2]]]}

\* one unit of a naked-pair strategy: the first two cells (idx1 < idx2) with
\* the same two candidates, then the elimination
NakedPairInUnit(g, u) ==
    TheOne({IF matches = {} THEN g
            ELSE TheOne({Eliminate(g, u, {first[1], first[2]},
                                   g.candidates[u[first[1]]]) :
                            first \in {First(matches)}}) :
                matches \in {PairMatches(g, u)}})

\* the unit loop of the naked-pair strategies; every one of the nine units
\* is scanned, changed tells whether a candidate list became different
RECURSIVE NakedPairPass(_, _, _, _)
NakedPairPass(units, g, changed, k) ==
    IF k = Side THEN [changed |-> changed, g |-> g]
    ELSE TheOne({NakedPairPass(units, h.g, h.changed, k + 1) :
                    h \in {Noted(g, changed, NakedPairInUnit(g, units[k]))}})

NakedPairColumnStrategy(g) == NakedPairPass(ColumnUnits, g, FALSE, 0)
NakedPairRowStrategy(g) == NakedPairPass(RowUnits, g, FALSE, 0)

\* the subgrid scan ended altogether at the first block that holds a pair
NakedPairSubgridStrategy_FirstBlock(g) ==
    IF \A b \in Idx : PairMatches(g, BlockUnits[b]) = {}
    THEN [changed |-> FALSE, g |-> g]
    ELSE Noted(g, FALSE,
               NakedPairInUnit(g, BlockUnits[
                   CHOOSE b \in Idx :
                       /\ PairMatches(g, BlockUnits[b]) # {}
                       /\ \A c \in 0 .. (b - 1) :
                              PairMatches(g, BlockUnits[c]) = {}]))

NakedPairSubgridStrategy(g) == NakedPairPass(BlockUnits, g, FALSE, 0)

\* cells of the unit u with 2 or 3 candidates, and the combinations of three
\* of them whose candidates are three numbers in all
TripletCells(g, u) ==
    {i \in 1 .. Side :
        /\ g.value[u[i]] = 0
        /\ Cardinality(g.candidates[u[i]]) >= 2
        /\ Cardinality(g.candidates[u[i]]) <= 3}

TripletUnion(g, u, m) ==
    g.candidates[u[m[1]]] \cup g.candidates[u[m[2]]] \cup g.candidates[u[m[3]]]

TripletCombos(g, u) ==
    {m \in TripletCells(g, u) \X TripletCells(g, u) \X TripletCells(g, u) :
        /\ m[1] < m[2]
        /\ m[2] < m[3]
        /\ Cardinality(TripletUnion(g, u, m)) = 3}

\* one unit of a naked-triplet strategy: the first combination of three cells
\* with 2 or 3 candidates whose union has three numbers, then the elimination
NakedTripletInUnit(g, u) ==
    TheOne({IF combos = {} THEN g
            ELSE TheOne({Eliminate(g, u, {first[1], first[2], first[3]},
                                   TripletUnion(g, u, first)) :
                            first \in {First(combos)}}) :
                combos \in {TripletCombos(g, u)}})

RECURSIVE NakedTripletPass(_, _, _, _)
NakedTripletPass(units, g, changed, k) ==
    IF k = Side THEN [changed |-> changed, g |-> g]
    ELSE TheOne({NakedTripletPass(units, h.g, h.changed, k + 1) :
                    h \in {Noted(g, changed, NakedTripletInUnit(g, units[k]))}})

NakedTripletColumnStrategy(g) == NakedTripletPass(ColumnUnits, g, FALSE, 0)
NakedTripletRowStrategy(g) == NakedTripletPass(RowUnits, g, FALSE, 0)
NakedTripletSubgridStrategy(g) == NakedTripletPass(BlockUnits, g, FALSE, 0)

\* the list `strateties` of guided_solver
NumStrategies == 10

Apply(idx, g) ==
    CASE idx = 0 -> SingleCandidateStrategy(g)
      [] idx = 1 -> SubgridSingleStrategy(g)
      [] idx = 2 -> RowSingleStrategy(g)
      [] idx = 3 -> ColumnSingleStrategy(g)
      [] idx = 4 -> NakedPairColumnStrategy(g)
      [] idx = 5 -> NakedPairRowStrategy(g)
      [] idx = 6 -> NakedPairSubgridStrategy(g)
      [] idx = 7 -> NakedTripletColumnStrategy(g)
      [] idx = 8 -> NakedTripletRowStrategy(g)
      [] idx = 9 -> NakedTripletSubgridStrategy(g)

\* ------------------------------------------------------------------------
\* State
\* ------------------------------------------------------------------------
MaxSteps == 34

VARIABLES
    puzzle,         \* the PUZZLE argument, one digit per cell, 0 for '.'/'0'
    guide,          \* the --guide flag
    value,          \* cells[r][c].value, 0 for None
    given,          \* cells[r][c].given
    candidates,     \* cells[r][c].candidates
    pc,             \* position of the program
    stack,          \* solve: frames of the active calls, [pos, num]
    ret,            \* solve: value returned by the call that just ended
    result,         \* outcome of the run
    strategies_idx, \* guided_solver: index of the strategy to apply
    changed,        \* guided_solver: flag returned by the last apply
    before_filled,  \* guided_solver: cells with a value before the apply
    last_changes,   \* guided_solver: cells filled by the last step
    prev_changes,   \* guided_solver: cells filled by the step before
    steps,          \* guided_solver: iterations of the while loop so far
    quiet           \* guided_solver: latest iterations in a row with changed = False

cells == [value |-> value, given |-> given, candidates |-> candidates]

grid == <<value, given, candidates>>
solving == <<stack, ret>>
guiding == <<strategies_idx, changed, before_filled, last_changes, prev_changes,
             steps, quiet>>
vars == <<puzzle, guide, grid, pc, solving, result, guiding>>

\* sudoku(): cells built from the puzzle text (lines 682-698)
Init ==
    /\ puzzle \in Puzzles
    /\ guide \in BOOLEAN
    /\ value = puzzle
    /\ given = [p \in Pos |-> puzzle[p] # 0]
    /\ candidates = [p \in Pos |-> {}]
    /\ pc = "start"
    /\ stack = <<>>
    /\ ret = FALSE
    /\ result = "none"
    /\ strategies_idx = 0
    /\ changed = FALSE
    /\ before_filled = {}
    /\ last_changes = {}
    /\ prev_changes = {}
    /\ steps = 0
    /\ quiet = 0

\* ------------------------------------------------------------------------
\* solve(cells), one action per step of the recursion
\* ------------------------------------------------------------------------
\* sudoku(): `if not guide and solve(cells)`
StartSolve ==
    /\ pc = "start"
    /\ ~guide
    /\ pc' = "call"
    /\ UNCHANGED <<puzzle, guide, grid, solving, result, guiding>>

\* an entry whose base case returns False
SolveEnter_FullFails ==
    /\ pc = "call"
    /\ IF find_empty(value) = <<>>
       THEN /\ ret' = FALSE
            /\ pc' = "return"
            /\ UNCHANGED stack
       ELSE /\ stack' = Append(stack, [pos |-> find_empty(value), num |-> 1])
            /\ pc' = "loop"
            /\ UNCHANGED ret
    /\ UNCHANGED <<puzzle, guide, grid, result, guiding>>

\* entry of a call: find_empty; return True when the grid is full, else
\* start the loop over num = 1..9 on the first empty cell
SolveEnter ==
    /\ pc = "call"
    /\ IF find_empty(value) = <<>>
       THEN /\ ret' = TRUE
            /\ pc' = "return"
            /\ UNCHANGED stack
       ELSE /\ stack' = Append(stack, [pos |-> find_empty(value), num |-> 1])
            /\ pc' = "loop"
            /\ UNCHANGED ret
    /\ UNCHANGED <<puzzle, guide, grid, result, guiding>>

Top == stack[Len(stack)]
Pop == SubSeq(stack, 1, Len(stack) - 1)
NextNum == [stack EXCEPT ![Len(stack)].num = @ + 1]

\* one iteration of `for num in range(1, 10)`: place num and recurse when
\* is_valid, else go on to the next num
SolveTry ==
    /\ pc = "loop"
    /\ Top.num <= Side
    /\ IF is_valid(value, Top.num, Top.pos)
       THEN /\ value' = [value EXCEPT ![Top.pos] = Top.num]
            /\ pc' = "call"
            /\ UNCHANGED stack
       ELSE /\ stack' = NextNum
            /\ UNCHANGED <<value, pc>>
    /\ UNCHANGED <<puzzle, guide, given, candidates, ret, result, guiding>>

\* the loop ran out of values: return False
SolveExhausted ==
    /\ pc = "loop"
    /\ Top.num > Side
    /\ stack' = Pop
    /\ ret' = FALSE
    /\ pc' = "return"
    /\ UNCHANGED <<puzzle, guide, grid, result, guiding>>

\* back in the caller with the cell left as placed when the call failed
SolveReturn_NoUndo ==
    /\ pc = "return"
    /\ stack # <<>>
    /\ IF ret
       THEN /\ stack' = Pop
            /\ UNCHANGED <<value, pc>>
       ELSE /\ stack' = NextNum
            /\ pc' = "loop"
            /\ UNCHANGED value
    /\ UNCHANGED <<puzzle, guide, given, candidates, ret, result, guiding>>

\* back in the caller after `solve(cells)`: return True on True, else unset
\* the cell and go on with the next num
SolveReturn ==
    /\ pc = "return"
    /\ stack # <<>>
    /\ IF ret
       THEN /\ stack' = Pop
            /\ UNCHANGED <<value, pc>>
       ELSE /\ value' = [value EXCEPT ![Top.pos] = 0]
            /\ stack' = NextNum
            /\ pc' = "loop"
    /\ UNCHANGED <<puzzle, guide, given, candidates, ret, result, guiding>>

\* back in sudoku(): "Solved puzzle" or "No solution found"
SolveDone ==
    /\ pc = "return"
    /\ stack = <<>>
    /\ result' = IF ret THEN "true" ELSE "false"
    /\ pc' = "done"
    /\ UNCHANGED <<puzzle, guide, grid, solving, guiding>>

\* ------------------------------------------------------------------------
\* guided_solver(cells), one action per part of a loop iteration
\* ------------------------------------------------------------------------
Filled(val) == {p \in Pos : val[p] # 0}

\* sudoku(): `if guide: guided_solver(cells)`, up to the while loop
GuidedStart ==
    /\ pc = "start"
    /\ guide
    /\ candidates' = get_cell_candidates(cells).candidates
    /\ strategies_idx' = 0
    /\ pc' = "apply"
    /\ UNCHANGED <<puzzle, guide, value, given, solving, result, changed,
                   before_filled, last_changes, prev_changes, steps, quiet>>

\* `changed, cells = strategy.apply(cells)`
ApplyStrategy ==
    /\ pc = "apply"
    /\ steps < MaxSteps
    /\ \E r \in {Apply(strategies_idx, cells)} :
           /\ before_filled' = Filled(value)
           /\ changed' = r.changed
           /\ value' = r.g.value
           /\ given' = r.g.given
           /\ candidates' = r.g.candidates
    /\ pc' = "applied"
    /\ UNCHANGED <<puzzle, guide, solving, result, strategies_idx, last_changes,
                   prev_changes, steps, quiet>>

\* the index moved on after every pass, changed or not
Advance_Always(idx, chg) ==
    IF idx + 1 >= NumStrategies THEN 0 ELSE idx + 1

\* index after `if not changed: strategies_idx += 1 ... strategies_idx = 0`
Advance(idx, chg) ==
    IF chg THEN idx
    ELSE IF idx + 1 >= NumStrategies THEN 0 ELSE idx + 1

\* a completion test made after every pass that changed nothing
Wrapped_AnyQuietPass(idx, chg) == ~chg

\* the `if strategies_idx >= len(strateties)` reached after an unchanged pass
Wrapped(idx, chg) == ~chg /\ idx + 1 >= NumStrategies

\* rest of the iteration: propagate the newly filled cells, move the index,
\* leave the loop when the index wrapped and no cell is empty
FinishStep ==
    /\ pc = "applied"
    /\ LET after_filled == Filled(value)
           fresh == after_filled \ before_filled
           wrapped == Wrapped(strategies_idx, changed)
       IN  /\ last_changes' = fresh
           /\ candidates' = IF fresh # {}
                            THEN remove_filled_candidates(cells, fresh).candidates
                            ELSE candidates
           /\ prev_changes' = fresh
           /\ strategies_idx' = Advance(strategies_idx, changed)
           /\ IF wrapped /\ find_empty(value) = <<>>
              THEN pc' = "done" /\ result' = "Solved"
              ELSE pc' = "prompt" /\ UNCHANGED result
    /\ steps' = steps + 1
    /\ quiet' = IF changed THEN 0 ELSE quiet + 1
    /\ UNCHANGED <<puzzle, guide, value, given, solving, changed, before_filled>>

\* the caller answers y: next iteration
Continue ==
    /\ pc = "prompt"
    /\ pc' = "apply"
    /\ UNCHANGED <<puzzle, guide, grid, solving, result, guiding>>

\* the caller answers n: the loop ends
Stop ==
    /\ pc = "prompt"
    /\ pc' = "done"
    /\ result' = "Stopped"
    /\ UNCHANGED <<puzzle, guide, grid, solving, guiding>>

Next ==
    \/ StartSolve
    \/ SolveEnter
    \/ SolveTry
    \/ SolveExhausted
    \/ SolveReturn
    \/ SolveDone
    \/ GuidedStart
    \/ ApplyStrategy
    \/ FinishStep
    \/ Continue
    \/ Stop

Spec == Init /\ [][Next]_vars

\* the caller answers y at every prompt, and the program keeps running
NextContinue ==
    \/ StartSolve
    \/ SolveEnter
    \/ SolveTry
    \/ SolveExhausted
    \/ SolveReturn
    \/ SolveDone
    \/ GuidedStart
    \/ ApplyStrategy
    \/ FinishStep
    \/ Continue

ContinueSpec == Init /\ [][NextContinue]_vars /\ WF_vars(NextContinue)

\* ------------------------------------------------------------------------
\* remove_filled_candidates called twice in a row on the same set
\* ------------------------------------------------------------------------
\* the grids it is called on: a puzzle with the candidates get_cell_candidates
\* gives it, and some of its empty cells then filled with one of their
\* candidates, as a strategy pass leaves them
FreshCandidates(t) ==
    get_cell_candidates([value |-> t,
                         given |-> [p \in Pos |-> t[p] # 0],
                         candidates |-> [p \in Pos |-> {}]]).candidates

Fills(t, F) ==
    {f \in [F -> UNION {FreshCandidates(t)[p] : p \in F}] :
        \A p \in F : f[p] \in FreshCandidates(t)[p]}

PropagateInit ==
    /\ puzzle \in Puzzles
    /\ guide = TRUE
    /\ given = [p \in Pos |-> puzzle[p] # 0]
    /\ candidates = FreshCandidates(puzzle)
    /\ \E F \in SUBSET (EmptyCells(puzzle) \cap HolePool) :
          /\ \E f \in Fills(puzzle, F) :
                value = [p \in Pos |-> IF p \in F THEN f[p] ELSE puzzle[p]]
          /\ last_changes \in SUBSET (F \cup {<<0, 0>>})
    /\ pc = "filled"
    /\ stack = <<>>
    /\ ret = FALSE
    /\ result = "none"
    /\ strategies_idx = 0
    /\ changed = FALSE
    /\ before_filled = {}
    /\ prev_changes = {}
    /\ steps = 0
    /\ quiet = 0

\* remove_filled_candidates(cells, last_changes), the first call and the
\* second; changed keeps whether the first call changed a candidate list
Propagate ==
    /\ pc \in {"filled", "once"}
    /\ \E r \in {remove_filled_candidates(cells, last_changes)} :
          /\ value' = r.value
          /\ given' = r.given
          /\ candidates' = r.candidates
          /\ changed' = IF pc = "filled" THEN r.candidates # candidates
                        ELSE changed
    /\ pc' = IF pc = "filled" THEN "once" ELSE "twice"
    /\ UNCHANGED <<puzzle, guide, solving, result, strategies_idx,
                   before_filled, last_changes, prev_changes, steps, quiet>>

PropagateSpec == PropagateInit /\ [][Propagate]_vars

\* ------------------------------------------------------------------------
\* Properties
\* ------------------------------------------------------------------------
Rows == {{p \in Pos : p[1] = r} : r \in Idx}
Columns == {{p \in Pos : p[2] = c} : c \in Idx}
Blocks == {{p \in Pos : SameBlock(p, o)} : o \in {0, 3, 6} \X {0, 3, 6}}
Units == Rows \cup Columns \cup Blocks

\* every row, column and block holds each of 1..9 exactly once: a unit has
\* nine cells, so it does when the values of its cells are all of 1..9
GridSolved(val) == \A U \in Units : {val[p] : p \in U} = Digits

\* the numbers no other cell of the row, column or block of p holds
Allowed(val, p) == Digits \ {val[q] : q \in Scanned(p) \ {p}}

\* the complete grids that satisfy GridSolved and agree with val on its
\* filled cells, found by branching on a cell with the fewest allowed numbers
RECURSIVE Completions(_)
Completions(val) ==
    IF EmptyCells(val) = {}
    THEN IF GridSolved(val) THEN {val} ELSE {}
    ELSE LET width == [q \in EmptyCells(val) |-> Cardinality(Allowed(val, q))]
             p == CHOOSE q \in EmptyCells(val) :
                    \A o \in EmptyCells(val) : width[q] <= width[o]
         IN  UNION {Completions([val EXCEPT ![p] = n]) : n \in Allowed(val, p)}

\* s comes no later than t when the cells are read in row-major order
GridLeq(s, t) ==
    \/ s = t
    \/ \E p \in Pos : /\ s[p] < t[p]
                      /\ \A q \in Pos : Rank(q) < Rank(p) => s[q] = t[q]

LexFirst(S) == CHOOSE s \in S : \A t \in S : GridLeq(s, t)

SolveEnded == pc = "done" /\ ~guide

\* C1 (as stated): whenever solve returns true, the grid is complete and
\* every row, column and block holds each of 1..9 exactly once.
C1_Stated == (SolveEnded /\ result = "true") => GridSolved(value)

\* C2: when the input has a valid completion, solve returns true and the grid
\* is the completion that comes first in row-major order, values ascending.
C2_LexFirst ==
    SolveEnded =>
        LET S == Completions(puzzle)
        IN  S # {} => result = "true" /\ value = LexFirst(S)

\* C2 witness: solve ended on an input with more than one completion
C2_Witness ==
    /\ SolveEnded
    /\ result = "true"
    /\ Cardinality(Completions(puzzle)) > 1
    /\ value = LexFirst(Completions(puzzle))

\* two cells of one row of the puzzle text hold the same number
RowDuplicate(t) ==
    \E p \in Pos, q \in Pos : p[1] = q[1] /\ p[2] < q[2] /\ t[p] # 0 /\ t[p] = t[q]

\* C3 (as stated): when two cells of a row are pre-filled with the same
\* value, solve returns false.
C3_Stated == (SolveEnded /\ RowDuplicate(puzzle)) => result = "false"

Guiding == guide /\ pc # "start"

\* every cell without a value has the value s gives it among its candidates
Kept(s) == \A p \in Pos : value[p] = 0 => s[p] \in candidates[p]

KeptIfUnique(S) == Cardinality(S) = 1 => \A s \in S : Kept(s)

\* C4: from a puzzle with exactly one completion, in every state of guided
\* mode each cell without a value still has that completion's value among its
\* candidates; no strategy and no propagation removes it.
C4_SolutionKept == Guiding => KeptIfUnique(Completions(puzzle))

\* C4 witness: a naked-pair or naked-triplet pass has just removed candidates
\* on a puzzle with one completion, cells without a value remain
C4_Witness ==
    /\ guide
    /\ pc = "applied"
    /\ strategies_idx >= 4
    /\ changed
    /\ EmptyCells(value) # {}
    /\ Cardinality(Completions(puzzle)) = 1

\* the fills a naked single or a hidden single forces on val, candidates
\* being the allowed numbers
Forced(val) ==
    {f \in EmptyCells(val) \X Digits :
        /\ f[2] \in Allowed(val, f[1])
        /\ \/ Allowed(val, f[1]) = {f[2]}
           \/ \E U \in Units :
                /\ f[1] \in U
                /\ \A q \in U \ {f[1]} : val[q] = 0 => f[2] \notin Allowed(val, q)}

RECURSIVE SinglesClosure(_)
SinglesClosure(val) ==
    IF Forced(val) = {} THEN val
    ELSE LET f == CHOOSE e \in Forced(val) : TRUE
         IN  SinglesClosure([val EXCEPT ![f[1]] = f[2]])

\* naked and hidden singles alone complete the puzzle
SinglesSolvable(t) == GridSolved(SinglesClosure(t))

\* C5 (as stated): on a puzzle with empty cells that singles complete, guided
\* mode ends with Solved after no more steps than the puzzle has empty cells.
C5_Stated ==
    (guide /\ result = "Solved" /\ EmptyCells(puzzle) # {}
           /\ SinglesSolvable(puzzle))
        => steps <= Cardinality(EmptyCells(puzzle))

\* C5 (amended): on a puzzle singles complete, guided mode with the caller
\* always continuing ends with Solved, and Solved is never reached in fewer
\* steps than there are strategies.
C5_Amended ==
    /\ (guide /\ pc = "start" /\ SinglesSolvable(puzzle)) ~> (result = "Solved")
    /\ [](result = "Solved" => steps >= NumStrategies)

\* C5 witness: Solved on a puzzle singles complete, after more steps than it
\* had empty cells
C5_Witness ==
    /\ guide
    /\ result = "Solved"
    /\ EmptyCells(puzzle) # {}
    /\ steps > Cardinality(EmptyCells(puzzle))
    /\ SinglesSolvable(puzzle)

\* a whole cycle of the ten strategies went by without a change, the index
\* is back at 0 and cells without a value remain
StagnantCycle ==
    /\ guide
    /\ pc \in {"prompt", "apply"}
    /\ quiet >= NumStrategies
    /\ strategies_idx = 0
    /\ EmptyCells(value) # {}

\* C6 (as stated): after a full cycle without a change while cells remain
\* unresolved, the orchestrator is in a terminal state and applies no
\* further strategy.
C6_Stated == [][StagnantCycle => pc' # "applied"]_vars

\* C7: at every step boundary of guided mode no cell without a value has a
\* candidate that is the value of a cell of its row, column or block.
C7_NoResolvedPeer ==
    (guide /\ pc \in {"apply", "prompt", "done"}) =>
        \A p \in Pos : value[p] = 0 =>
            \A q \in Scanned(p) : value[q] \notin candidates[p]

\* C7 witness: a step has just filled a cell, and a cell of its row, column
\* or block still has no value and some candidates
C7_Witness ==
    /\ guide
    /\ pc = "prompt"
    /\ \E q \in last_changes : \E p \in Scanned(q) :
            value[p] = 0 /\ candidates[p] # {}

\* C8 (as stated): on return from apply every cell the pass filled has no
\* candidates, and no cell that had a value has another value.
C8_Stated ==
    [][(pc = "apply" /\ pc' = "applied") =>
          \A p \in Pos :
              /\ value[p] # 0 => value'[p] = value[p]
              /\ (value[p] = 0 /\ value'[p] # 0) => candidates'[p] = {}]_vars

\* C9: in every state, a cell given in the puzzle text has given = true and
\* its original value, and a cell empty in the puzzle text has given = false.
C9_GivenKept ==
    \A p \in Pos :
        /\ puzzle[p] # 0 => given[p] /\ value[p] = puzzle[p]
        /\ puzzle[p] = 0 => ~given[p]

\* C9 witness: a hidden-single pass has just filled a cell that was empty in
\* the puzzle text
C9_Witness ==
    /\ guide
    /\ pc = "applied"
    /\ strategies_idx \in 1 .. 3
    /\ \E p \in Pos : p \notin before_filled /\ value[p] # 0 /\ ~given[p]

\* C10: on a complete valid grid solve returns true and places nothing:
\* values, given flags and candidates stay as they were on entry.
C10_CompleteUntouched ==
    (~guide /\ EmptyCells(puzzle) = {} /\ GridSolved(puzzle)) =>
        /\ value = puzzle
        /\ given = [p \in Pos |-> TRUE]
        /\ candidates = [p \in Pos |-> {}]
        /\ stack = <<>>
        /\ pc = "done" => result = "true"

\* C10 witness: solve has returned on the complete valid grid
C10_Witness ==
    /\ SolveEnded
    /\ result = "true"
    /\ puzzle = Solution
    /\ value = Solution

\* C11: remove_filled_candidates is idempotent: called a second time in
\* succession with the same set of filled positions it changes no cell's
\* candidates and no cell's value.
C11_Idempotent ==
    [][(pc = "once" /\ pc' = "twice") =>
          (candidates' = candidates /\ value' = value)]_vars

\* C11 witness: the second call has returned, the first one had removed
\* candidates, and a cell without a value still has some
C11_Witness ==
    /\ pc = "twice"
    /\ changed
    /\ last_changes # {}
    /\ \E p \in Pos : value[p] = 0 /\ candidates[p] # {}

\* the blocks in which the step being taken changes a candidate list
BlocksTouched ==
    {b \in Idx : \E k \in 1 .. Side :
        candidates'[BlockUnits[b][k]] # candidates[BlockUnits[b][k]]}

\* the step being taken is a pass of the strategy number idx
PassOf(idx) == guide /\ pc = "apply" /\ pc' = "applied" /\ strategies_idx = idx

\* C12 (as stated): a pass of the naked-pair subgrid strategy eliminates in
\* at most one block, and leaves alone every block after the first block
\* that holds a naked pair.
C12_Stated ==
    [][PassOf(6) =>
          /\ Cardinality(BlocksTouched) <= 1
          /\ \A b \in Idx : PairMatches(cells, BlockUnits[b]) # {} =>
                 \A c \in BlocksTouched : c <= b]_vars

\* what a pass of a naked-pair strategy does to the unit u: without a pair
\* its candidates stay; with one, the numbers of its first pair leave every
\* other cell of u that has no value, and the pair keeps them
PairActedOn(u) ==
    IF PairMatches(cells, u) = {}
    THEN \A k \in 1 .. Side : candidates'[u[k]] = candidates[u[k]]
    ELSE \A k \in 1 .. Side :
            candidates'[u[k]] =
                IF value[u[k]] = 0 /\ k \notin {First(PairMatches(cells, u))[1],
                                                First(PairMatches(cells, u))[2]}
                THEN candidates[u[k]] \
                       candidates[u[First(PairMatches(cells, u))[1]]]
                ELSE candidates[u[k]]

\* C12 (amended): the subgrid variant too acts on the first pair of every
\* block in the same pass, as the column and row variants do on every column
\* and row; the scan stops at the first pair only within a unit.
C12_EveryBlock ==
    [][/\ PassOf(6) => \A b \in Idx : PairActedOn(BlockUnits[b])
       /\ PassOf(5) => \A r \in Idx : PairActedOn(RowUnits[r])
       /\ PassOf(4) => \A c \in Idx : PairActedOn(ColumnUnits[c])]_vars

\* cells of the unit u that have no value, are not of a naked pair held by
\* u, and lack a number of that pair that no value of their row, column or
\* block rules out
PairEliminated(u) ==
    \E m \in PairMatches(cells, u) : \E k \in (1 .. Side) \ {m[1], m[2]} :
        /\ value[u[k]] = 0
        /\ (Allowed(value, u[k]) \cap candidates[u[m[1]]])
               \ candidates[u[k]] # {}

\* C12 witness: a naked-pair subgrid pass has just changed candidates, and
\* two blocks each hold a pair whose numbers are gone from another cell
C12_Witness ==
    /\ guide
    /\ pc = "applied"
    /\ strategies_idx = 6
    /\ changed
    /\ \E b \in Idx : \E c \in Idx :
          b < c /\ PairEliminated(BlockUnits[b]) /\ PairEliminated(BlockUnits[c])

\* C13: in every step of the orchestrator the index becomes (index + 1)
\* modulo the number of strategies when the strategy reported no change and
\* stays as it is when it reported a change; no other part of the program
\* moves it; Solved is declared only on a step where the index wraps to 0 and
\* no cell is left without a value.
C13_IndexRule ==
    [][guide =>
          /\ (pc = "applied" /\ ~changed) =>
                 strategies_idx' = (strategies_idx + 1) % NumStrategies
          /\ (pc = "applied" /\ changed) => strategies_idx' = strategies_idx
          /\ pc # "applied" => strategies_idx' = strategies_idx
          /\ (result' = "Solved" /\ result # "Solved") =>
                 /\ pc = "applied"
                 /\ ~changed
                 /\ strategies_idx = NumStrategies - 1
                 /\ strategies_idx' = 0
                 /\ EmptyCells(value') = {}]_vars

\* C13 witness: Solved has been declared with the index back at 0, on a
\* puzzle that had empty cells, after a run in which some pass was retried
\* because it had reported a change
C13_Witness ==
    /\ guide
    /\ result = "Solved"
    /\ strategies_idx = 0
    /\ EmptyCells(puzzle) # {}
    /\ steps > quiet

\* no value is held by two cells of one row, column or block of val
NoRepeat(val) ==
    \A U \in Units : \A p \in U : \A q \in U \ {p} :
        val[p] # 0 => val[p] # val[q]

\* C14 (as stated): from a puzzle whose given cells hold no value twice in a
\* row, column or block, at every step boundary of guided mode no value is
\* held twice by the cells of a row, column or block.
C14_Stated ==
    (guide /\ pc \in {"apply", "prompt", "done"} /\ NoRepeat(puzzle))
        => NoRepeat(value)

\* the grid as it was on entry to the call that has just returned: the
\* puzzle text with the placement of every call still active
EntryValue ==
    [p \in Pos |->
        IF \E i \in 1 .. Len(stack) : stack[i].pos = p
        THEN stack[CHOOSE i \in 1 .. Len(stack) : stack[i].pos = p].num
        ELSE puzzle[p]]

\* C15: whenever a call of solve, the outermost or a nested one, has
\* returned false, every cell's value, given flag and candidates are as they
\* were on entry to that call.
C15_FalseRestores ==
    (~guide /\ pc \in {"return", "done"} /\ ~ret) =>
        /\ value = EntryValue
        /\ given = [p \in Pos |-> puzzle[p] # 0]
        /\ candidates = [p \in Pos |-> {}]

\* C15 witness: solve has returned false to sudoku() on a puzzle whose first
\* empty cell accepted a number, so that placements were made and undone
C15_Witness ==
    /\ SolveEnded
    /\ result = "false"
    /\ find_empty(puzzle) # <<>>
    /\ \E n \in Digits : is_valid(puzzle, n, find_empty(puzzle))

====
